---- MODULE Spec2Model ----
(***************************************************************************)
(* Model of dndapicli.py: startup discovery of the API endpoints and the   *)
(* interactive command loop with its resolver and presenter functions.     *)
(*                                                                         *)
(* Text is a sequence of one-character strings.  A JSON value is a tagged  *)
(* record; all records of one kind have the same fields so that any two    *)
(* of them can be compared.                                                *)
(***************************************************************************)
EXTENDS Integers, Sequences, FiniteSets, TLC

VARIABLES pc, exit_status, available_endpoints, root_response,
          loop_err, user_input, requests, response, returned, stdout, stderr,
          items_displayed, outcome

vars == <<pc, exit_status, available_endpoints, root_response,
          loop_err, user_input, requests, response, returned, stdout, stderr,
          items_displayed, outcome>>

(* ------------------------------ bounds --------------------------------- *)

\* Longest generated input line, in characters.
MaxLineLen == 5

\* Longest item list a collection endpoint answers with.
MaxItems == 2

(* ------------------------------- text ---------------------------------- *)

\* Characters in code-point order (the order sort() compares strings by).
Ascii ==
    <<" ", "\"", "'", "-", "/", "0", "1", "2", "3", "4", "5", "6", "7", "8",
      "9", "A", "B", "C", "D", "E", "F", "G", "H", "I", "J", "K", "L", "M",
      "N", "O", "P", "Q", "R", "S", "T", "U", "V", "W", "X", "Y", "Z", "a",
      "b", "c", "d", "e", "f", "g", "h", "i", "j", "k", "l", "m", "n", "o",
      "p", "q", "r", "s", "t", "u", "v", "w", "x", "y", "z">>

CharCode(c) == CHOOSE i \in DOMAIN Ascii : Ascii[i] = c

Upper == SubSeq(Ascii, 16, 41)

Lower == SubSeq(Ascii, 42, 67)

Digits == {"0", "1", "2", "3", "4", "5", "6", "7", "8", "9"}

Whitespace == {" "}

Quotes == {"\"", "'"}

\* str.lower() on one character.
LowerChar(c) ==
    IF \E i \in DOMAIN Upper : Upper[i] = c
    THEN Lower[CHOOSE i \in DOMAIN Upper : Upper[i] = c]
    ELSE c

\* str.lower()
lower(s) == [i \in DOMAIN s |-> LowerChar(s[i])]

\* str.replace(old, new) for single characters: every occurrence, one by one.
replace(s, old, new) == [i \in DOMAIN s |-> IF s[i] = old THEN new ELSE s[i]]

RECURSIVE lstrip(_, _)
lstrip(s, chars) ==
    IF s # <<>> /\ Head(s) \in chars THEN lstrip(Tail(s), chars) ELSE s

RECURSIVE rstrip(_, _)
rstrip(s, chars) ==
    IF s # <<>> /\ s[Len(s)] \in chars
    THEN rstrip(SubSeq(s, 1, Len(s) - 1), chars)
    ELSE s

\* str.strip(chars); strip() with no argument strips Whitespace.
strip(s, chars) == rstrip(lstrip(s, chars), chars)

\* sep.join(parts) for a one-character separator.
RECURSIVE join(_, _)
join(sep, parts) ==
    IF parts = <<>> THEN <<>>
    ELSE IF Len(parts) = 1 THEN parts[1]
    ELSE parts[1] \o <<sep>> \o join(sep, Tail(parts))

\* str.split(sep) for a one-character separator (empty fields are kept).
RECURSIVE split(_, _, _, _)
split(s, sep, cur, acc) ==
    IF s = <<>> THEN Append(acc, cur)
    ELSE IF Head(s) = sep THEN split(Tail(s), sep, <<>>, Append(acc, cur))
    ELSE split(Tail(s), sep, Append(cur, Head(s)), acc)

\* str.isdigit(): non-empty and all digits.
isdigit(s) == s # <<>> /\ \A i \in DOMAIN s : s[i] \in Digits

\* "sub in s" for strings: sub occurs as a contiguous run.
IsSubstring(sub, s) ==
    \E i \in 0..(Len(s) - Len(sub)) : SubSeq(s, i + 1, i + Len(sub)) = sub

\* Strings compared as sort() compares them.
RECURSIVE StrLess(_, _)
StrLess(a, b) ==
    IF b = <<>> THEN FALSE
    ELSE IF a = <<>> THEN TRUE
    ELSE IF Head(a) # Head(b) THEN CharCode(Head(a)) < CharCode(Head(b))
    ELSE StrLess(Tail(a), Tail(b))

\* list(keys) followed by list.sort()
RECURSIVE SortedSeq(_)
SortedSeq(S) ==
    IF S = {} THEN <<>>
    ELSE LET m == CHOOSE a \in S : \A b \in S \ {a} : StrLess(a, b)
         IN  <<m>> \o SortedSeq(S \ {m})

Range(f) == {f[i] : i \in DOMAIN f}

(* ------------------------------ shlex ---------------------------------- *)

\* shlex.split(user_input): POSIX mode, split on whitespace only.  state is
\* " " between tokens, "a" inside a word, or the open quote character.
\* Yields [ok, tokens]; ok = FALSE is ValueError (no closing quotation).
RECURSIVE shlex_run(_, _, _, _, _)
shlex_run(s, state, token, quoted, toks) ==
    IF s = <<>> THEN
        IF state \in Quotes THEN [ok |-> FALSE, tokens |-> <<>>]
        ELSE IF token # <<>> \/ quoted
             THEN [ok |-> TRUE, tokens |-> Append(toks, token)]
             ELSE [ok |-> TRUE, tokens |-> toks]
    ELSE LET c == Head(s) r == Tail(s) IN
        IF state \in Quotes THEN
            IF c = state THEN shlex_run(r, "a", token, TRUE, toks)
            ELSE shlex_run(r, state, Append(token, c), TRUE, toks)
        ELSE IF c \in Whitespace THEN
            IF token # <<>> \/ quoted
            THEN shlex_run(r, " ", <<>>, FALSE, Append(toks, token))
            ELSE shlex_run(r, " ", <<>>, FALSE, toks)
        ELSE IF c \in Quotes THEN shlex_run(r, c, token, TRUE, toks)
        ELSE shlex_run(r, "a", Append(token, c), quoted, toks)

shlex_split(s) == shlex_run(s, " ", <<>>, FALSE, <<>>)

(* ----------------------------- argparse -------------------------------- *)

DashDash == <<"-", "-">>

\* argparse takes an argument for an option when it starts with "-", is
\* longer than one character and holds no space ("--" itself is the
\* separator, not an option).
IsOptionString(tok) ==
    /\ Len(tok) > 1
    /\ tok[1] = "-"
    /\ tok # DashDash
    /\ \A i \in DOMAIN tok : tok[i] # " "

\* parser.parse_args(command_parts) for the parser built at startup: the
\* positional entity_type (choices = available_endpoints) followed by
\* entity_name_parts (nargs = REMAINDER); no options are declared.
\* Yields [ok, entity_type, entity_name_parts]; ok = FALSE is SystemExit
\* after the usage error has been printed.
\*   - an option string in first place is unrecognized: error;
\*   - the first "--" is dropped from the arguments of entity_type, which
\*     spans a leading "--" and the "--" right after the value;
\*   - everything else goes to entity_name_parts as it is.
ParseError == [ok |-> FALSE, entity_type |-> <<>>, entity_name_parts |-> <<>>]

parse_args(command_parts, choices) ==
    LET n == Len(command_parts)
        lead == n >= 1 /\ command_parts[1] = DashDash
        at == IF lead THEN 2 ELSE 1
        trail == ~lead /\ n >= 2 /\ command_parts[2] = DashDash
        from == IF trail THEN 3 ELSE at + 1
    IN  IF n < at THEN ParseError
        ELSE IF ~lead /\ IsOptionString(command_parts[1]) THEN ParseError
        ELSE IF command_parts[at] \notin Range(choices) THEN ParseError
        ELSE [ok |-> TRUE,
              entity_type |-> command_parts[at],
              entity_name_parts |-> SubSeq(command_parts, from, n)]

(* --------------------------- JSON values ------------------------------- *)

\* A scalar held in a field of an item: a string, a number (its digits) or
\* null.
StrVal(cs) == [t |-> "str", s |-> cs]

IntVal(cs) == [t |-> "int", s |-> cs]

Null == [t |-> "null", s |-> <<>>]

\* Python truth value of a scalar ("if not display_name", "if display_name").
Truthy(v) ==
    CASE v.t = "str" -> v.s # <<>>
      [] v.t = "int" -> v.s # <<"0">>
      [] OTHER -> FALSE

\* str(v) as an f-string formats it.
Format(v) == IF v.t = "null" THEN <<"N", "o", "n", "e">> ELSE v.s

\* An element of an item list: a dict with any of the fields name, index and
\* url (has = the keys present), or a value that is not a dict.
DictItem(has, name, index, url) ==
    [t |-> "dict", has |-> has, name |-> name, index |-> index, url |-> url,
     s |-> <<>>]

StrItem(cs) ==
    [t |-> "str", has |-> {}, name |-> Null, index |-> Null, url |-> Null,
     s |-> cs]

IntItem(cs) ==
    [t |-> "int", has |-> {}, name |-> Null, index |-> Null, url |-> Null,
     s |-> cs]

NoItem == StrItem(<<>>)

\* A parsed response body (the value response.json() returns).  A dict has
\* its key set; rl says that its "results" value is a list, and l is that
\* list.  A list has its elements in l.
NullBody == [t |-> "null", s |-> <<>>, keys |-> {}, rl |-> FALSE, l |-> <<>>]

IntBody(cs) == [t |-> "int", s |-> cs, keys |-> {}, rl |-> FALSE, l |-> <<>>]

StrBody(cs) == [t |-> "str", s |-> cs, keys |-> {}, rl |-> FALSE, l |-> <<>>]

ListBody(l) == [t |-> "list", s |-> <<>>, keys |-> {}, rl |-> FALSE, l |-> l]

DictBody(keys, rl, l) ==
    [t |-> "dict", s |-> <<>>, keys |-> keys, rl |-> rl, l |-> l]

NoBody == NullBody

list_key == <<"r", "e", "s", "u", "l", "t", "s">>

(* ------------------------------- HTTP ---------------------------------- *)

\* What requests.get(url, timeout=10), raise_for_status() and json() come
\* to: one of the exceptions, or a parsed body.
Raised(kind, status) == [kind |-> kind, status |-> status, body |-> NoBody]

Ok(body) == [kind |-> "ok", status |-> 200, body |-> body]

NoResponse == Raised("none", 0)

Failures ==
    {Raised("Timeout", 0), Raised("ConnectionError", 0),
     Raised("HTTPError", 404), Raised("HTTPError", 500),
     Raised("JSONDecodeError", 200)}

(* ------------------------------ console -------------------------------- *)

\* One printed line: its kind, its text, and for a value printed as it is
\* (an item's repr, a JSON dump) the value.
Line(k, cs) ==
    [k |-> k, s |-> cs, raw |-> FALSE, item |-> NoItem, body |-> NoBody]

RawLine(item) ==
    [k |-> "item", s |-> <<>>, raw |-> TRUE, item |-> item, body |-> NoBody]

JsonLine(body) ==
    [k |-> "json", s |-> <<>>, raw |-> TRUE, item |-> NoItem, body |-> body]

(* ------------------------------ resolver ------------------------------- *)

\* Result of a resolver call: the exception that left it (exc, "none" when
\* it returned), whether it returned None, the value returned, and what it
\* printed.
Returned(exc, none, list, body, out, err) ==
    [exc |-> exc, none |-> none, list |-> list, body |-> body, out |-> out,
     err |-> err]

NoCall == Returned("none", TRUE, <<>>, NoBody, <<>>, <<>>)

\* fetch_available_endpoints without the isinstance(data, dict) test: any
\* parsed body is taken and its keys (none, if it is no dict) are returned.
fetch_available_endpoints_unchecked(resp) ==
    IF resp.kind = "ok"
    THEN [none |-> FALSE, endpoints |-> SortedSeq(resp.body.keys),
          err |-> <<>>]
    ELSE [none |-> TRUE, endpoints |-> <<>>, err |-> <<"could_not_connect">>]

\* fetch_available_endpoints: the sorted keys of the root object, or None.
fetch_available_endpoints(resp) ==
    IF resp.kind = "ok" THEN
        IF resp.body.t = "dict"
        THEN [none |-> FALSE, endpoints |-> SortedSeq(resp.body.keys),
              err |-> <<>>]
        ELSE [none |-> TRUE, endpoints |-> <<>>, err |-> <<"not_an_object">>]
    ELSE IF resp.kind = "Timeout"
    THEN [none |-> TRUE, endpoints |-> <<>>, err |-> <<"timed_out">>]
    ELSE IF resp.kind \in {"ConnectionError", "HTTPError"}
    THEN [none |-> TRUE, endpoints |-> <<>>, err |-> <<"could_not_connect">>]
    ELSE [none |-> TRUE, endpoints |-> <<>>, err |-> <<"could_not_decode">>]

\* "list_key in data": membership in a dict's keys, a list's elements, or a
\* string's substrings; any other value is not iterable (TypeError).
Contains(data) ==
    CASE data.t = "dict" -> list_key \in data.keys
      [] data.t = "list" ->
            \E i \in DOMAIN data.l :
                data.l[i].t = "str" /\ data.l[i].s = list_key
      [] data.t = "str" -> IsSubstring(list_key, data.s)
      [] OTHER -> FALSE

\* fetch_entity_list
fetch_entity_list(entity_type, resp) ==
    LET out == <<Line("fetching", entity_type)>>
        data == resp.body
    IN  IF resp.kind = "ok" THEN
            IF data.t \in {"null", "int"}
            THEN Returned("TypeError", TRUE, <<>>, NoBody, out, <<>>)
            ELSE IF Contains(data) /\ data.t # "dict"
            THEN Returned("TypeError", TRUE, <<>>, NoBody, out, <<>>)
            ELSE IF Contains(data) /\ data.rl
            THEN Returned("none", FALSE, data.l, NoBody, out, <<>>)
            ELSE IF data.t = "list"
            THEN Returned("none", FALSE, data.l, NoBody, out,
                          <<"warning_list_directly">>)
            ELSE Returned("none", TRUE, <<>>, NoBody, out,
                          <<"unexpected_format">>)
        ELSE IF resp.kind = "Timeout"
        THEN Returned("none", TRUE, <<>>, NoBody, out, <<"timed_out">>)
        ELSE IF resp.kind \in {"ConnectionError", "HTTPError"}
        THEN Returned("none", TRUE, <<>>, NoBody, out, <<"error_fetching">>)
        ELSE Returned("none", TRUE, <<>>, NoBody, out, <<"error_decoding">>)

\* slug = str(entity_name_or_index).lower().replace(' ', '-')
Slug(entity_name_or_index) == replace(lower(entity_name_or_index), " ", "-")

\* fetch_entity_data
fetch_entity_data(entity_type, entity_name_or_index, resp) ==
    LET slug == Slug(entity_name_or_index)
        url == entity_type \o <<"/">> \o slug
        out == <<Line("fetching", url)>>
    IN  IF resp.kind = "ok"
        THEN Returned("none", resp.body.t = "null", <<>>, resp.body, out,
                      <<>>)
        ELSE IF resp.kind = "Timeout"
        THEN Returned("none", TRUE, <<>>, NoBody, out, <<"timed_out">>)
        ELSE IF resp.kind = "HTTPError"
        THEN Returned("none", TRUE, <<>>, NoBody, out,
                      IF resp.status = 404
                      THEN <<"error_fetching", "could_not_find">>
                      ELSE <<"error_fetching", "status_code">>)
        ELSE IF resp.kind = "ConnectionError"
        THEN Returned("none", TRUE, <<>>, NoBody, out, <<"error_fetching">>)
        ELSE Returned("none", TRUE, <<>>, NoBody, out, <<"error_decoding">>)


(* ------------------------------ presenter ------------------------------ *)

name_key == "name"

index_key == "index"

url_key == "url"

\* item.get(name_key, item.get(index_key))
GetName(item) ==
    IF name_key \in item.has THEN item.name
    ELSE IF index_key \in item.has THEN item.index
    ELSE Null

\* The URL fallback of display_entity_list (the try block): a url that is
\* no string raises inside the try and leaves display_name as it was.
UrlName(item, display_name) ==
    IF item.url.t # "str" THEN display_name
    ELSE LET parts == split(strip(item.url.s, {"/"}), "/", <<>>, <<>>)
             last == parts[Len(parts)]
         IN  IF Len(parts) > 1 /\ isdigit(last)
             THEN StrVal(<<"I", "D", ":", " ">> \o last)
             ELSE StrVal(last)

\* DisplayItem with the increment missing where an item is printed as it is.
DisplayItemUncounted(item) ==
    IF item.t = "dict" THEN
        LET first == GetName(item)
            display_name ==
                IF ~Truthy(first) /\ url_key \in item.has
                THEN UrlName(item, first)
                ELSE first
        IN  IF Truthy(display_name)
            THEN [line |-> Line("item", Format(display_name)), shown |-> 1]
            ELSE [line |-> RawLine(item), shown |-> 0]
    ELSE [line |-> RawLine(item), shown |-> 0]

\* One pass of the item loop of display_entity_list: the line printed and
\* the increment of items_displayed.
DisplayItem(item) ==
    IF item.t = "dict" THEN
        LET first == GetName(item)
            display_name ==
                IF ~Truthy(first) /\ url_key \in item.has
                THEN UrlName(item, first)
                ELSE first
        IN  IF Truthy(display_name)
            THEN [line |-> Line("item", Format(display_name)), shown |-> 1]
            ELSE [line |-> RawLine(item), shown |-> 1]
    ELSE [line |-> RawLine(item), shown |-> 1]

RECURSIVE DisplayLoop(_, _, _)
DisplayLoop(entity_list, out, count) ==
    IF entity_list = <<>> THEN [out |-> out, items_displayed |-> count]
    ELSE LET d == DisplayItem(Head(entity_list))
         IN  DisplayLoop(Tail(entity_list), Append(out, d.line),
                         count + d.shown)

UpperChar(c) ==
    IF \E i \in DOMAIN Lower : Lower[i] = c
    THEN Upper[CHOOSE i \in DOMAIN Lower : Lower[i] = c]
    ELSE c

\* str.capitalize()
capitalize(s) ==
    [i \in DOMAIN s |-> IF i = 1 THEN UpperChar(s[i]) ELSE LowerChar(s[i])]

\* display_entity_list
display_entity_list(entity_list, entity_type) ==
    IF entity_list = <<>>
    THEN [out |-> <<Line("no_items_found", entity_type)>>,
          items_displayed |-> 0]
    ELSE LET loop == DisplayLoop(entity_list,
                                 <<Line("header", capitalize(entity_type))>>,
                                 0)
         IN  [out |-> loop.out
                      \o (IF loop.items_displayed = 0
                          THEN <<Line("could_not_extract", entity_type)>>
                          ELSE <<>>)
                      \o <<Line("rule", <<>>), Line("hint", entity_type)>>,
              items_displayed |-> loop.items_displayed]

NoDisplay == [out |-> <<>>, items_displayed |-> 0]

cols == 3

RECURSIVE MaxLen(_)
MaxLen(names) ==
    IF Len(names) = 1 THEN Len(names[1])
    ELSE LET m == MaxLen(Tail(names))
         IN  IF Len(names[1]) > m THEN Len(names[1]) ELSE m

\* f"{ep:<{col_width}}"
PadRight(ep, col_width) == ep \o [i \in 1..(col_width - Len(ep)) |-> " "]

\* The endpoint table of display_help: cols names to a row.
RECURSIVE HelpRows(_, _, _, _)
HelpRows(names, col_width, row, n) ==
    IF names = <<>>
    THEN IF n % cols # 0 THEN <<Line("help_row", row)>> ELSE <<>>
    ELSE LET text == row \o PadRight(Head(names), col_width)
         IN  IF (n + 1) % cols = 0
             THEN <<Line("help_row", text)>>
                  \o HelpRows(Tail(names), col_width, <<>>, n + 1)
             ELSE HelpRows(Tail(names), col_width, text, n + 1)

\* display_help: max() of no endpoints raises ValueError after the first
\* lines are out.
display_help(endpoints) ==
    IF endpoints = <<>>
    THEN [exc |-> "ValueError", out |-> <<Line("help_header", <<>>)>>]
    ELSE [exc |-> "none",
          out |-> <<Line("help_header", <<>>)>>
                  \o HelpRows(endpoints, MaxLen(endpoints) + 2, <<>>, 0)
                  \o <<Line("help_commands", <<>>)>>]

(* ---------------------------- command loop ----------------------------- *)

\* ExitCommands without "q".
ExitCommandsNoQ == {<<"e", "x", "i", "t">>, <<"q", "u", "i", "t">>}

ExitCommands == {<<"e", "x", "i", "t">>, <<"q", "u", "i", "t">>, <<"q">>}

HelpCommand == <<"h", "e", "l", "p">>

\* The loop body from input() up to the dispatch: what the line asks for.
\* kind is blank, exit, help, unmatched_quotes, usage_error, list or item.
\* The ValueError of shlex.split and the SystemExit of parse_args are caught
\* on the spot ("continue"), so no exception leaves this part.
Asks(kind, user_input_, entity_type, item_name, exc) ==
    [kind |-> kind, user_input |-> user_input_, entity_type |-> entity_type,
     item_name |-> item_name, exc |-> exc]

Command(line, endpoints) ==
    LET stripped == strip(line, Whitespace)
        cmd_lower == lower(stripped)
        command_parts == shlex_split(stripped)
        args == parse_args(command_parts.tokens, endpoints)
    IN  IF stripped = <<>> THEN Asks("blank", stripped, <<>>, <<>>, "none")
        ELSE IF cmd_lower \in ExitCommands
        THEN Asks("exit", stripped, <<>>, <<>>, "none")
        ELSE IF cmd_lower = HelpCommand
        THEN Asks("help", stripped, <<>>, <<>>, "none")
        ELSE IF ~command_parts.ok
        THEN Asks("unmatched_quotes", stripped, <<>>, <<>>, "none")
        ELSE IF ~args.ok
        THEN Asks("usage_error", stripped, <<>>, <<>>, "none")
        ELSE IF args.entity_name_parts = <<>>
        THEN Asks("list", stripped, args.entity_type, <<>>, "none")
        ELSE Asks("item", stripped, args.entity_type,
                  join(" ", args.entity_name_parts), "none")

\* LoopExcept without the final "except Exception" clause.
LoopExceptNoCatchAll(exc) ==
    IF exc \in {"KeyboardInterrupt", "EOFError"} THEN "break"
    ELSE "propagate"

\* The except clauses of the loop: KeyboardInterrupt and EOFError break,
\* any Exception is logged and the loop continues; SystemExit is no
\* Exception and leaves the loop.
LoopExcept(exc) ==
    IF exc \in {"KeyboardInterrupt", "EOFError"} THEN "break"
    ELSE IF exc \in {"TypeError", "ValueError"} THEN "continue"
    ELSE "propagate"

\* Where the process is after one pass of the loop body that ended by exc.
AfterBody(kind, exc) ==
    IF exc = "none" THEN (IF kind = "exit" THEN "terminated" ELSE "iterated")
    ELSE IF LoopExcept(exc) = "break" THEN "terminated"
    ELSE IF LoopExcept(exc) = "continue" THEN "iterated"
    ELSE "crashed"

\* Exit status of the process: -1 while it runs.
StatusAt(at, exc, old) ==
    IF at = "terminated" THEN 0
    ELSE IF at = "crashed" THEN (IF exc = "SystemExit" THEN 2 ELSE 1)
    ELSE old

\* What the loop's handlers print for exc.
HandlerOut(exc) ==
    IF exc \in {"KeyboardInterrupt", "EOFError"}
    THEN <<Line("exiting", <<>>)>>
    ELSE <<>>

HandlerErr(exc) ==
    IF exc # "none" /\ LoopExcept(exc) = "continue"
    THEN <<"unexpected_error">>
    ELSE <<>>

Request(fn, entity_type, entity_name_or_index, slug) ==
    [fn |-> fn, entity_type |-> entity_type,
     entity_name_or_index |-> entity_name_or_index, slug |-> slug]

(* ------------------------------- inputs -------------------------------- *)

Alphabet == {"s", "S", " ", "\"", "-"}

GeneratedLines == UNION {[1..k -> Alphabet] : k \in 0..MaxLineLen}

\* Lines with the words of the built-in commands in them.
BuiltinLines ==
    {<<"h", "e", "l", "p">>, <<"H", "e", "L", "P">>,
     <<" ", "h", "e", "l", "p", " ">>, <<"h", "e", "l", "p", " ", "s">>,
     <<"\"", "h", "e", "l", "p", "\"">>,
     <<"-", "-", " ", "h", "e", "l", "p">>,
     <<"e", "x", "i", "t">>, <<"E", "X", "I", "T">>,
     <<"e", "x", "i", "t", " ", "s">>,
     <<"q", "u", "i", "t">>, <<"Q", "u", "i", "t", " ">>,
     <<"q", "u", "i", "t", " ", "-", "-">>,
     <<"q">>, <<"Q">>, <<" ", "q", " ">>, <<"q", " ", "s">>,
     <<"Q", " ", "s">>, <<"q", " ", "S", " ", "s">>, <<"\"", "q", "\"">>,
     <<"q", " ", "-", "-">>, <<"-", "-", " ", "q">>,
     <<"s", " ", "q">>, <<"x">>}

Lines == GeneratedLines \cup BuiltinLines

RootKeySets == {{}, {<<"s">>}, {HelpCommand, <<"q">>, <<"s">>}}

RootResponses ==
    Failures
    \cup {Ok(DictBody(K, FALSE, <<>>)) : K \in RootKeySets}
    \cup {Ok(NullBody), Ok(ListBody(<<>>)), Ok(StrBody(<<"x">>)),
          Ok(IntBody(<<"5">>))}

Fireball == <<"F", "i", "r", "e", "b", "a", "l", "l">>

AcidArrow == <<"a", "c", "i", "d", "-", "a", "r", "r", "o", "w">>

ItemUniverse ==
    {DictItem({"name"}, StrVal(Fireball), Null, Null),
     DictItem({"index"}, Null, StrVal(AcidArrow), Null),
     DictItem({"name", "index", "url"}, StrVal(Fireball), StrVal(AcidArrow),
              StrVal(<<"/", "a", "/", "7">>)),
     DictItem({"url"}, Null, Null, StrVal(<<"/", "a", "/", "3">>)),
     DictItem({"url"}, Null, Null, StrVal(<<"/", "a", "/", "b", "/">>)),
     DictItem({"url"}, Null, Null, StrVal(<<"5">>)),
     DictItem({"url"}, Null, Null, IntVal(<<"7">>)),
     DictItem({"name", "index"}, StrVal(<<>>), StrVal(AcidArrow), Null),
     DictItem({}, Null, Null, Null),
     StrItem(list_key),
     IntItem(<<"5">>)}

ItemLists == UNION {[1..k -> ItemUniverse] : k \in 0..MaxItems}

ListResponses ==
    Failures
    \cup {Ok(NullBody), Ok(IntBody(<<"5">>)), Ok(StrBody(<<"x">>)),
          Ok(StrBody(list_key)), Ok(DictBody({}, FALSE, <<>>)),
          Ok(DictBody({list_key}, FALSE, <<>>))}
    \cup {Ok(ListBody(l)) : l \in ItemLists}
    \cup {Ok(DictBody({<<"c", "o", "u", "n", "t">>, list_key}, TRUE, l)) :
            l \in ItemLists}

ItemResponses ==
    Failures
    \cup {Ok(NullBody), Ok(IntBody(<<"5">>)), Ok(StrBody(<<"x">>)),
          Ok(ListBody(<<>>)),
          Ok(DictBody({<<"n", "a", "m", "e">>}, FALSE, <<>>))}

(* ------------------------------ behaviour ------------------------------ *)

Init ==
    /\ pc = "startup"
    /\ exit_status = -1
    /\ available_endpoints = <<>>
    /\ root_response = NoResponse
    /\ loop_err = "none"
    /\ user_input = <<>>
    /\ requests = <<>>
    /\ response = NoResponse
    /\ returned = NoCall
    /\ stdout = <<>>
    /\ stderr = <<>>
    /\ items_displayed = 0
    /\ outcome = "none"

\* Startup: fetch_available_endpoints, and sys.exit(1) when it gives None.
Startup ==
    /\ pc = "startup"
    /\ \E resp \in RootResponses :
        LET r == fetch_available_endpoints(resp)
        IN  /\ root_response' = resp
            /\ pc' = IF r.none THEN "exited" ELSE "prompt"
            /\ exit_status' = IF r.none THEN 1 ELSE exit_status
            /\ available_endpoints' = r.endpoints
            /\ stderr' = r.err \o (IF r.none THEN <<"critical_error">>
                                   ELSE <<>>)
    /\ UNCHANGED <<loop_err, user_input, requests, response,
                   returned, stdout, items_displayed, outcome>>

\* input() raises KeyboardInterrupt or EOFError.
Interrupt ==
    /\ pc = "prompt"
    /\ \E exc \in {"KeyboardInterrupt", "EOFError"} :
        /\ loop_err' = exc
        /\ pc' = AfterBody("none", exc)
        /\ exit_status' = StatusAt(AfterBody("none", exc), exc, exit_status)
        /\ stdout' = HandlerOut(exc)
        /\ outcome' = exc
    /\ UNCHANGED <<available_endpoints, root_response,
                   user_input, requests, response, returned, stderr,
                   items_displayed>>

\* One pass of the loop body for a line that leads to no request: a blank
\* line, exit, help, unmatched quotes or a usage error.
IterateLocal ==
    /\ pc = "prompt"
    /\ \E line \in Lines :
        \E cmd \in {Command(line, available_endpoints)} :
            /\ cmd.kind \notin {"list", "item"}
            /\ \E help \in {IF cmd.kind = "help"
                             THEN display_help(available_endpoints)
                             ELSE [exc |-> cmd.exc, out |-> <<>>]} :
                /\ user_input' = cmd.user_input
                /\ outcome' = cmd.kind
                /\ loop_err' = help.exc
                /\ pc' = AfterBody(cmd.kind, help.exc)
                /\ exit_status' = StatusAt(AfterBody(cmd.kind, help.exc),
                                           help.exc, exit_status)
                /\ stdout' = help.out \o HandlerOut(help.exc)
                /\ stderr' = (IF cmd.kind \in {"unmatched_quotes",
                                               "usage_error"}
                              THEN <<cmd.kind>> ELSE <<>>)
                             \o HandlerErr(help.exc)
    /\ UNCHANGED <<available_endpoints, root_response, requests, response,
                   returned, items_displayed>>

\* One pass of the loop body for "<endpoint>": fetch_entity_list and, when
\* it returns a list, display_entity_list.
IterateList ==
    /\ pc = "prompt"
    /\ \E line \in Lines :
        \E cmd \in {Command(line, available_endpoints)} :
            /\ cmd.kind = "list"
            /\ \E resp \in ListResponses :
                \E entity_list \in {fetch_entity_list(cmd.entity_type,
                                                      resp)} :
                \E shown \in {IF entity_list.exc = "none"
                                  /\ ~entity_list.none
                               THEN display_entity_list(entity_list.list,
                                                        cmd.entity_type)
                               ELSE NoDisplay} :
                    /\ user_input' = cmd.user_input
                    /\ outcome' = cmd.kind
                    /\ requests' = <<Request("fetch_entity_list",
                                             cmd.entity_type, <<>>, <<>>)>>
                    /\ response' = resp
                    /\ returned' = entity_list
                    /\ loop_err' = entity_list.exc
                    /\ pc' = AfterBody(cmd.kind, entity_list.exc)
                    /\ exit_status' =
                            StatusAt(AfterBody(cmd.kind, entity_list.exc),
                                     entity_list.exc, exit_status)
                    /\ stdout' = entity_list.out \o shown.out
                                 \o HandlerOut(entity_list.exc)
                    /\ stderr' = entity_list.err
                                 \o HandlerErr(entity_list.exc)
                    /\ items_displayed' = shown.items_displayed
    /\ UNCHANGED <<available_endpoints, root_response>>

\* One pass of the loop body for "<endpoint> <name ...>": fetch_entity_data
\* and, when it returns a value, the JSON dump.
IterateItem ==
    /\ pc = "prompt"
    /\ \E line \in Lines :
        \E cmd \in {Command(line, available_endpoints)} :
            /\ cmd.kind = "item"
            /\ \E resp \in ItemResponses :
                \E entity_data \in {fetch_entity_data(cmd.entity_type,
                                                      cmd.item_name,
                                                      resp)} :
                    /\ user_input' = cmd.user_input
                    /\ outcome' = cmd.kind
                    /\ requests' = <<Request("fetch_entity_data",
                                             cmd.entity_type, cmd.item_name,
                                             Slug(cmd.item_name))>>
                    /\ response' = resp
                    /\ returned' = entity_data
                    /\ loop_err' = entity_data.exc
                    /\ pc' = AfterBody(cmd.kind, entity_data.exc)
                    /\ exit_status' =
                            StatusAt(AfterBody(cmd.kind, entity_data.exc),
                                     entity_data.exc, exit_status)
                    /\ stdout' = entity_data.out
                                 \o (IF entity_data.exc = "none"
                                        /\ ~entity_data.none
                                     THEN <<Line("details_header",
                                                 cmd.entity_type \o <<"/">>
                                                 \o cmd.item_name),
                                            JsonLine(entity_data.body),
                                            Line("rule", <<>>)>>
                                     ELSE <<>>)
                                 \o HandlerOut(entity_data.exc)
                    /\ stderr' = entity_data.err
                                 \o HandlerErr(entity_data.exc)
    /\ UNCHANGED <<available_endpoints, root_response, items_displayed>>

\* Back at "while True": the next prompt; what the last pass printed and
\* fetched is behind.
LoopBack ==
    /\ pc = "iterated"
    /\ pc' = "prompt"
    /\ loop_err' = "none"
    /\ user_input' = <<>>
    /\ requests' = <<>>
    /\ response' = NoResponse
    /\ returned' = NoCall
    /\ stdout' = <<>>
    /\ stderr' = <<>>
    /\ items_displayed' = 0
    /\ outcome' = "none"
    /\ UNCHANGED <<exit_status, available_endpoints, root_response>>

Next ==
    \/ Startup
    \/ Interrupt
    \/ IterateLocal
    \/ IterateList
    \/ IterateItem
    \/ LoopBack

Spec == Init /\ [][Next]_vars


(* ------------------------------ properties ----------------------------- *)

\* A pass of the loop body has just run on a line (not an interrupt).
AfterLine == outcome \notin {"none", "KeyboardInterrupt", "EOFError"}

Interrupted == loop_err \in {"KeyboardInterrupt", "EOFError"}

\* The tokens of the line, when its quotes match.
Tokens == shlex_split(user_input)

BuiltinWords == {<<"h", "e", "l", "p">>, <<"e", "x", "i", "t">>,
                 <<"q", "u", "i", "t">>, <<"q">>}

Kinds(lines) == {lines[i].k : i \in DOMAIN lines}

\* A view has been rendered: the list view or the detail view.
ListViewShown == Kinds(stdout) \cap {"header", "no_items_found"} # {}

DetailViewShown == "json" \in Kinds(stdout)

\* C1: the process leaves the loop only on a line that is exit, quit or q
\* (trimmed, any case) or on KeyboardInterrupt / EOFError; after every other
\* line, whatever the request came to and whatever was raised meanwhile,
\* the loop is still running, and the process never dies of an exception.
C1_LoopSurvives ==
    /\ pc # "crashed"
    /\ pc = "terminated" =>
           Interrupted \/ (AfterLine /\ lower(user_input) \in
                               {<<"e", "x", "i", "t">>,
                                <<"q", "u", "i", "t">>, <<"q">>})
    /\ (AfterLine /\ lower(user_input) \notin
                         {<<"e", "x", "i", "t">>, <<"q", "u", "i", "t">>,
                          <<"q">>})
           => pc = "iterated"

\* C1 witness: an exception left the resolver, the loop's handler logged it
\* and the loop goes on.
C1_Witness ==
    /\ pc = "iterated"
    /\ loop_err = "TypeError"
    /\ "unexpected_error" \in Range(stderr)

\* C2 (as claimed): a line whose first token is no discovered endpoint (and
\* that is no built-in command) gets a usage error and no request.
C2_UnknownFirstTokenNoRequest ==
    (/\ AfterLine
     /\ outcome \notin {"blank", "exit", "help"}
     /\ Tokens.ok
     /\ Tokens.tokens[1] \notin Range(available_endpoints))
        => (outcome = "usage_error" /\ requests = <<>>)

\* C3 (as claimed): a line whose first token is help, exit, quit or q in any
\* case leads to no request for the endpoint of that name.
C3_BuiltinFirstTokenNoRequest ==
    (/\ AfterLine
     /\ Tokens.ok
     /\ Tokens.tokens # <<>>
     /\ lower(Tokens.tokens[1]) \in BuiltinWords)
        => \A i \in DOMAIN requests :
               requests[i].entity_type # Tokens.tokens[1]

\* C3 (amended): a line that is, trimmed and in any case, exactly help,
\* exit, quit or q is taken as the built-in command and leads to no request,
\* also when an endpoint of that name was discovered.
C3_BuiltinLineNoRequest ==
    (AfterLine /\ lower(user_input) \in BuiltinWords)
        => (requests = <<>> /\ outcome \in {"exit", "help"})

\* C3 witness: "Q" typed while an endpoint named q exists: the loop ends
\* and nothing is requested.
C3_Witness ==
    /\ user_input = <<"Q">>
    /\ <<"q">> \in Range(available_endpoints)
    /\ pc = "terminated"
    /\ requests = <<>>

\* C4 (as claimed): no exception leaves fetch_entity_list or
\* fetch_entity_data; every failure (an exception of the request, or a body
\* of the wrong shape for a list) is logged there and returned as None.
C4_ResolverNeverRaises ==
    requests # <<>> =>
        /\ returned.exc = "none"
        /\ response.kind # "ok" => (returned.none /\ returned.err # <<>>)
        /\ (/\ requests[1].fn = "fetch_entity_list"
            /\ response.kind = "ok"
            /\ response.body.t \in {"null", "int", "str"})
               => (returned.none /\ returned.err # <<>>)

\* C5 (as claimed): answered by the bare list S, fetch_entity_list returns S
\* and the console shows what it shows for the answer {results: S}.
C5_BareListSameAsResults ==
    (outcome = "list" /\ response.kind = "ok" /\ response.body.t = "list")
        => /\ returned.exc = "none"
           /\ ~returned.none
           /\ returned.list = response.body.l
           /\ stdout =
                fetch_entity_list(
                    requests[1].entity_type,
                    Ok(DictBody({list_key}, TRUE, response.body.l))).out
                \o display_entity_list(response.body.l,
                                       requests[1].entity_type).out

\* C6 (as claimed): with a name, every parsed body is shown by the detail
\* view as it is; with no name, every list obtained is shown by the list
\* view; after a failed request nothing is shown.
C6_SuccessShownFailureNot ==
    /\ (outcome = "item" /\ response.kind = "ok")
           => (DetailViewShown /\ JsonLine(response.body) \in Range(stdout))
    /\ (outcome = "list" /\ returned.exc = "none" /\ ~returned.none)
           => ListViewShown
    /\ (requests # <<>> /\ response.kind # "ok")
           => (~DetailViewShown /\ ~ListViewShown)

\* C7: the loop is entered exactly when the root request was answered by a
\* JSON object; after any other answer the process exits with status 1 and
\* no line is ever read; leaving the loop exits with status 0.
C7_StartupGate ==
    /\ pc # "startup" =>
           (pc # "exited" <=>
                (root_response.kind = "ok" /\ root_response.body.t = "dict"))
    /\ pc = "exited" =>
           (exit_status = 1 /\ outcome = "none" /\ user_input = <<>>
            /\ requests = <<>>)
    /\ pc = "terminated" => exit_status = 0
    /\ pc \in {"prompt", "iterated"} => exit_status = -1

\* C7 witness: the root answered with JSON that is no object and the
\* process exited with status 1.
C7_Witness ==
    /\ pc = "exited"
    /\ exit_status = 1
    /\ root_response.kind = "ok"
    /\ root_response.body.t = "list"

\* The line the list view prints for an item by the priority name, index,
\* last non-empty segment of url ("ID: n" when numeric), raw item.
ClaimedLine(item) ==
    IF item.t # "dict" THEN RawLine(item)
    ELSE IF name_key \in item.has THEN Line("item", Format(item.name))
    ELSE IF index_key \in item.has THEN Line("item", Format(item.index))
    ELSE IF url_key \in item.has /\ item.url.t = "str"
            /\ strip(item.url.s, {"/"}) # <<>>
    THEN LET parts == split(strip(item.url.s, {"/"}), "/", <<>>, <<>>)
             last == parts[Len(parts)]
         IN  IF isdigit(last)
             THEN Line("item", <<"I", "D", ":", " ">> \o last)
             ELSE Line("item", last)
    ELSE RawLine(item)

\* C8 (as claimed): the list view prints one line per item, chosen by the
\* priority name, index, url segment ("ID: n" whenever numeric), raw item.
C8_LinePriority ==
    (outcome = "list" /\ "header" \in Kinds(stdout))
        => /\ Len(stdout) = Len(returned.list) + 4
           /\ \A i \in DOMAIN returned.list :
                  stdout[i + 2] = ClaimedLine(returned.list[i])

\* C9 (as claimed): for a line "C t1 ... tn" with C a discovered endpoint
\* and n >= 1, one request goes out for the item of C named by the tokens
\* joined with single spaces, its slug the lowercased name with every space
\* turned into a hyphen; the name depends on the tokens alone, so quoting
\* two words or not makes no difference.
C9_NameAndSlug ==
    (/\ AfterLine
     /\ outcome \notin {"blank", "exit", "help"}
     /\ Tokens.ok
     /\ Len(Tokens.tokens) >= 2
     /\ Tokens.tokens[1] \in Range(available_endpoints))
        => LET name == join(" ", Tail(Tokens.tokens))
           IN  requests =
                   <<Request("fetch_entity_data", Tokens.tokens[1], name,
                             [i \in DOMAIN name |->
                                 IF name[i] = " " THEN "-"
                                 ELSE LowerChar(name[i])])>>

\* C10: whenever the list view runs on a list that is not empty, the count
\* of items shown ends equal to the length of the list; the message that
\* nothing could be extracted is never printed; and for an empty list
\* neither the header nor the hint is printed.
C10_EveryItemCounted ==
    /\ "could_not_extract" \notin Kinds(stdout)
    /\ (outcome = "list" /\ returned.exc = "none" /\ ~returned.none)
           => IF returned.list = <<>>
              THEN Kinds(stdout) = {"fetching", "no_items_found"}
              ELSE /\ items_displayed = Len(returned.list)
                   /\ {"header", "hint"} \subseteq Kinds(stdout)

\* C10 witness: a list of a value that is no dict and of a dict with none of
\* the keys has been shown, and both were counted.
C10_Witness ==
    /\ outcome = "list"
    /\ Len(returned.list) = 2
    /\ returned.list[1].t = "int"
    /\ returned.list[2] = DictItem({}, Null, Null, Null)
    /\ items_displayed = 2
    /\ "header" \in Kinds(stdout)

====
